---- MODULE Spec2Model ----
(***************************************************************************)
(* Exam scheduling engine of backend/app/routers/scheduling.py.            *)
(*                                                                         *)
(* The database holds the session, the rooms, the modules with their       *)
(* enrollments (inputs the engine only reads) and the exam table (the      *)
(* rows the engine writes).  schedule_entire_session is modelled in three  *)
(* steps: the bulk load with the construction of the in-memory indices,    *)
(* one loop iteration per pending exam, and the final commit.              *)
(* assign_exam_supervisors is modelled the same way: load, one iteration   *)
(* per scheduled exam, commit.  A run of either can end before its commit, *)
(* and then nothing of it is persisted.  The other endpoints               *)
(* (get_schedule_conflicts, get_available_slots, schedule_single_exam,     *)
(* update_exam, clear_session_schedule) are one step each and leave their  *)
(* reply in the state.                                                     *)
(*                                                                         *)
(* Dates are day numbers with day 0 a Monday, so that weekday() is d % 7.  *)
(* A time of day is a record [hour, minute].  A nullable column holds      *)
(* None (the empty tuple) or a one-element tuple with the value.           *)
(***************************************************************************)
EXTENDS Integers, Sequences, FiniteSets, Bags, TLC

VARIABLES
    session,             \* ExamSession row: [start_date, end_date]
    rooms,               \* ExamRoom rows that are active and available: id -> row
    modules,             \* Module rows: id -> row
    enrollments,         \* Enrollment rows: set of <<student_id, module_id, year>>
    exams,               \* Exam rows as persisted: id -> row
    pc,                  \* "idle", or "loop" while schedule_entire_session runs
    ws,                  \* Exam objects of the running request (written at commit)
    pending_exams,       \* sequence of exam ids, as the query returned them
    rooms_by_capacity,   \* sequence of room ids, ascending exam_capacity
    students_per_day,    \* date -> set of student ids
    rooms_busy_at_slot,  \* <<date, time>> -> set of room ids
    idx,                 \* position of the loop in pending_exams
    scheduled_count,
    failed_count,
    result,              \* last SessionScheduleResult, None before any run
    prev_op,             \* last completed operation
    fresh_run,           \* the current or last run found no scheduled exam
    ops,                 \* requests so far
    professors,          \* Professor rows: id -> row
    supervisors,         \* ExamSupervisor rows as persisted, in insertion order
    asg,                 \* locals of a running assign_exam_supervisors, or None
    reply                \* reply of the last other endpoint, None before any

vars == <<session, rooms, modules, enrollments, exams, pc, ws, pending_exams,
          rooms_by_capacity, students_per_day, rooms_busy_at_slot, idx,
          scheduled_count, failed_count, result, prev_op, fresh_run,
          ops, professors, supervisors, asg, reply>>

inputs == <<session, rooms, modules, enrollments>>
locals == <<ws, pending_exams, rooms_by_capacity, students_per_day,
            rooms_busy_at_slot, idx, scheduled_count, failed_count>>
staff == <<professors, supervisors, asg, reply>>

----------------------------------------------------------------------------
(* Bounds of the model *)

NumModules == 2      \* modules of every input family but the crowded one
FullModules == 5     \* modules of the crowded family (one room, one day)
NumStudents == 1
NumYears == 2        \* academic years an enrollment row can carry
MaxOps == 4          \* requests in one behaviour

(* Program constants *)

FRIDAY == 4          \* date.weekday() of the skipped day
FALLBACK_STUDENTS == 50

None == <<>>
Some(v) == <<v>>
Val(o) == o[1]

Time(h, m) == [hour |-> h, minute |-> m]
start_times == <<Time(8, 30), Time(11, 0), Time(13, 30), Time(16, 0)>>

Students == 1..NumStudents
Years == 1..NumYears

Range(s) == {s[i] : i \in 1..Len(s)}
Min_Last(S) == CHOOSE x \in S : \A y \in S : x >= y

\* the first position a scan reaches
Min(S) == CHOOSE x \in S : \A y \in S : x <= y
\* date.isoweekday(): Monday is 1
Weekday_Iso(d) == (d % 7) + 1

Weekday(d) == d % 7

----------------------------------------------------------------------------
(* Phase 1: what the bulk queries return *)

\* module_id -> set of student ids; a module without enrollment rows has no key
module_students_keys == {x[2] : x \in enrollments}
module_students(mid) == {x[1] : x \in {y \in enrollments : y[2] = mid}}

\* prepare_session_for_scheduling: func.count(Enrollment.id) per module
student_counts(mid) == Cardinality({y \in enrollments : y[2] = mid})

\* The orders a query with ORDER BY key can return the ids S in: rows with
\* equal keys come in an order the database does not fix.
OrdersBy(S, key(_), desc) ==
    {s \in [1..Cardinality(S) -> S] :
        /\ \A i, j \in 1..Cardinality(S) : i # j => s[i] # s[j]
        /\ \A i, j \in 1..Cardinality(S) :
              i < j => IF desc THEN key(s[i]) >= key(s[j])
                               ELSE key(s[i]) <= key(s[j])}

RoomCapacity(r) == rooms[r].exam_capacity
ExpectedOf(e) == exams[e].expected_students

RoomOrders == OrdersBy(DOMAIN rooms, RoomCapacity, FALSE)
PendingOrders_Ascending ==
    OrdersBy({e \in DOMAIN exams : exams[e].status = "pending"}, ExpectedOf, FALSE)

PendingOrders ==
    OrdersBy({e \in DOMAIN exams : exams[e].status = "pending"}, ExpectedOf, TRUE)
ExistingExams == {e \in DOMAIN exams : exams[e].status = "scheduled"}

SelectSeq2(s, Test(_)) ==
    LET F[i \in 0..Len(s)] ==
          IF i = 0 THEN <<>>
          ELSE IF Test(s[i]) THEN Append(F[i-1], s[i]) ELSE F[i-1]
    IN F[Len(s)]

HasComputers(r) == rooms[r].has_computers
IsLab(r) == rooms[r].room_type = "lab"
computer_rooms(rbc) == SelectSeq2(rbc, HasComputers)
lab_rooms(rbc) == SelectSeq2(rbc, IsLab)

----------------------------------------------------------------------------
(* Phase 2: the in-memory indices *)

Dates == session.start_date..session.end_date
SlotKeys == {<<d, t>> : d \in Dates, t \in Range(start_times)}

\* the guard of the pre-fill loop for one already scheduled exam
ExistingIndexed(ex) ==
    ex.scheduled_date # None /\ ex.module_id \in module_students_keys

InitStudentsPerDay(tbl) ==
    [d \in Dates |->
        UNION {module_students(tbl[e].module_id) :
                 e \in {x \in DOMAIN tbl : /\ tbl[x].status = "scheduled"
                                           /\ ExistingIndexed(tbl[x])
                                           /\ tbl[x].scheduled_date = Some(d)}}]

InitRoomsBusyAtSlot(tbl) ==
    [k \in SlotKeys |->
        {Val(tbl[e].room_id) :
            e \in {x \in DOMAIN tbl : /\ tbl[x].status = "scheduled"
                                      /\ ExistingIndexed(tbl[x])
                                      /\ tbl[x].start_time # None
                                      /\ tbl[x].room_id # None
                                      /\ tbl[x].scheduled_date = Some(k[1])
                                      /\ tbl[x].start_time = Some(k[2])}}]

\* all_slots: day-major, time-minor, Fridays skipped
RECURSIVE SlotsFrom(_, _)
SlotsFrom(date_cursor, end_date) ==
    IF date_cursor > end_date THEN <<>>
    ELSE (IF Weekday(date_cursor) # FRIDAY
            THEN [i \in 1..Len(start_times) |-> <<date_cursor, start_times[i]>>]
            ELSE <<>>)
         \o SlotsFrom(date_cursor + 1, end_date)

all_slots == SlotsFrom(session.start_date, session.end_date)

----------------------------------------------------------------------------
(* Phase 3: one iteration of the greedy loop *)

StudentCount_SetSizeOnly(exam) ==
    Cardinality(module_students(exam.module_id))

StudentCount(exam) ==
    LET n == Cardinality(module_students(exam.module_id))
    IN IF n = 0
         THEN (IF exam.expected_students # 0 THEN exam.expected_students
                                             ELSE FALLBACK_STUDENTS)
         ELSE n

CandidateRooms(exam, rbc) ==
    LET student_count == StudentCount(exam)
        Fits(r) == rooms[r].exam_capacity >= student_count
    IN IF exam.requires_lab THEN SelectSeq2(lab_rooms(rbc), Fits)
       ELSE IF exam.requires_computer THEN SelectSeq2(computer_rooms(rbc), Fits)
       ELSE SelectSeq2(rbc, Fits)

DayFree_Unchecked(exam_students, day_busy) == TRUE

\* the one-exam-per-day-per-student test of a slot
DayFree(exam_students, day_busy) == exam_students \cap day_busy = {}

FreeRoomPositions_IgnoreBusy(candidate_rooms, busy_rooms) ==
    1..Len(candidate_rooms)

\* positions of the candidate rooms not booked at the slot
FreeRoomPositions(candidate_rooms, busy_rooms) ==
    {j \in 1..Len(candidate_rooms) : candidate_rooms[j] \notin busy_rooms}

\* positions in all_slots at which the exam can be placed
FeasibleSlots(exam_students, candidate_rooms, spd, rbs) ==
    {i \in 1..Len(all_slots) :
        /\ DayFree(exam_students, spd[all_slots[i][1]])
        /\ FreeRoomPositions(candidate_rooms, rbs[all_slots[i]]) # {}}

Assign_NoRoom(exam, slot_date, slot_time, room_id) ==
    [exam EXCEPT !.scheduled_date = Some(slot_date),
                 !.start_time = Some(slot_time),
                 !.status = "scheduled"]

\* the fields written when a slot is found
Assign(exam, slot_date, slot_time, room_id) ==
    [exam EXCEPT !.scheduled_date = Some(slot_date),
                 !.start_time = Some(slot_time),
                 !.room_id = Some(room_id),
                 !.status = "scheduled"]

CountFailure_SkipNoCandidates(fc, no_candidates) ==
    IF no_candidates THEN fc ELSE fc + 1

\* failed_count after an exam for which nothing was found
CountFailure(fc, no_candidates) == fc + 1

----------------------------------------------------------------------------
(* Inputs *)

Room(type, cap, comp) ==
    [room_type |-> type, exam_capacity |-> cap, has_computers |-> comp]

RoomCatalog ==
    (1 :> Room("classroom", 50, FALSE)) @@ (2 :> Room("classroom", 60, TRUE)) @@
    (3 :> Room("lab", 70, FALSE))       @@ (4 :> Room("lab", 80, TRUE)) @@
    (5 :> Room("classroom", 1, FALSE))  @@ (6 :> Room("amphi", 50, FALSE))

RoomsOf(S) == [r \in S |-> RoomCatalog[r]]

Durations == {120, 180}

Module(dur, comp, lab) ==
    [exam_duration_minutes |-> dur, requires_computer |-> comp, requires_lab |-> lab]

(* The inputs come in families.  Each varies one aspect and keeps the rest *)
(* plain; all but the last use Thursday to Saturday, two days of slots     *)
(* around a skipped Friday.                                                *)

PlainModules(n) == [m \in 1..n |-> Module(120, FALSE, FALSE)]
ThursdayToSaturday == [start_date |-> 3, end_date |-> 5]

\* equipment: every combination of the two flags, every set of equipped rooms
InitEquipment ==
    /\ session = ThursdayToSaturday
    /\ rooms \in {RoomsOf(S) : S \in SUBSET {2, 3, 4}}
    /\ modules \in [1..NumModules ->
                      {Module(120, c, l) : c \in BOOLEAN, l \in BOOLEAN}]
    /\ enrollments = {}

\* students: every enrollment of the students in the modules, rooms that tie
InitStudents ==
    /\ session = ThursdayToSaturday
    /\ rooms \in {RoomsOf(S) : S \in SUBSET {1, 6}}
    /\ modules = PlainModules(NumModules)
    /\ enrollments \in SUBSET (Students \X (1..NumModules) \X {1})

\* capacity: module 1 with enrollment rows of several years, a small room
InitCapacity ==
    /\ session = ThursdayToSaturday
    /\ rooms \in {RoomsOf(S) : S \in SUBSET {1, 5}}
    /\ modules = PlainModules(NumModules)
    /\ enrollments \in SUBSET (Students \X {1} \X Years)

\* durations: every exam duration, one room
InitDurations ==
    /\ session = ThursdayToSaturday
    /\ rooms = RoomsOf({1})
    /\ modules \in [1..NumModules -> {Module(d, FALSE, FALSE) : d \in Durations}]
    /\ enrollments = {}

\* crowded: one room and one day of four slots for more exams than slots
InitFull ==
    /\ session = [start_date |-> 3, end_date |-> 3]
    /\ rooms = RoomsOf({6})
    /\ modules = PlainModules(FullModules)
    /\ enrollments \in SUBSET (Students \X {1} \X {1})

IdleLocals ==
    /\ ws = <<>>
    /\ pending_exams = <<>>
    /\ rooms_by_capacity = <<>>
    /\ students_per_day = <<>>
    /\ rooms_busy_at_slot = <<>>
    /\ idx = 0
    /\ scheduled_count = 0
    /\ failed_count = 0

\* nothing has run yet
InitIdle ==
    /\ pc = "idle"
    /\ IdleLocals
    /\ result = None
    /\ prev_op = "none"
    /\ fresh_run = FALSE
    /\ ops = 0
    /\ supervisors = <<>>
    /\ asg = None
    /\ reply = None

Init ==
    /\ InitEquipment \/ InitStudents \/ InitCapacity \/ InitDurations \/ InitFull
    /\ exams = <<>>
    /\ professors = <<>>
    /\ InitIdle

----------------------------------------------------------------------------
(* prepare_session_for_scheduling: one pending exam per active module that *)
(* has none.  The modules 1..k are the active ones when it is called: all  *)
(* of them, or all but the last one, which is activated later.             *)

NewExam(m) ==
    [module_id |-> m,
     room_id |-> None,
     scheduled_date |-> None,
     start_time |-> None,
     duration_minutes |-> modules[m].exam_duration_minutes,
     status |-> "pending",
     expected_students |-> student_counts(m),
     requires_computer |-> modules[m].requires_computer,
     requires_lab |-> modules[m].requires_lab]

PrepareSession(k) ==
    LET existing_module_ids == {exams[e].module_id : e \in DOMAIN exams}
        new == (1..k) \ existing_module_ids
    IN /\ pc = "idle"
       /\ ops < MaxOps
       /\ new # {}             \* otherwise no row changes
       /\ ops' = ops + 1
       /\ exams' = [e \in DOMAIN exams \cup new |->
                      IF e \in DOMAIN exams THEN exams[e] ELSE NewExam(e)]
       /\ result' = None
       /\ prev_op' = "prepare"
       /\ UNCHANGED <<inputs, pc, locals, fresh_run, staff>>

----------------------------------------------------------------------------
(* schedule_entire_session *)

ScheduleLoad ==
    /\ pc = "idle"
    /\ ops < MaxOps
    /\ ops' = ops + 1
    /\ \E po \in PendingOrders, ro \in RoomOrders :
          /\ pending_exams' = po
          /\ rooms_by_capacity' = ro
    /\ students_per_day' = InitStudentsPerDay(exams)
    /\ rooms_busy_at_slot' = InitRoomsBusyAtSlot(exams)
    /\ ws' = exams
    /\ idx' = 1
    /\ scheduled_count' = 0
    /\ failed_count' = 0
    /\ fresh_run' = (ExistingExams = {})
    /\ pc' = "loop"
    /\ UNCHANGED <<inputs, exams, result, prev_op, staff>>

\* the state of the loop: the exam objects, the two indices, the two counters
LoopState(w, spd, rbs, sc, fc) ==
    [ws |-> w, students_per_day |-> spd, rooms_busy_at_slot |-> rbs,
     scheduled_count |-> sc, failed_count |-> fc]

\* the body of the loop for the exam e, with the rooms in the order rbc
ProcessOne(st, e, rbc) ==
    LET exam == st.ws[e]
        candidate_rooms == CandidateRooms(exam, rbc)
        exam_students == module_students(exam.module_id)
        feasible == FeasibleSlots(exam_students, candidate_rooms,
                                  st.students_per_day, st.rooms_busy_at_slot)
    IN IF Len(candidate_rooms) = 0 \/ feasible = {}
         THEN [st EXCEPT !.failed_count =
                            CountFailure(@, Len(candidate_rooms) = 0)]
         ELSE LET slot == all_slots[Min(feasible)]
                  room == candidate_rooms[
                            Min(FreeRoomPositions(candidate_rooms,
                                                  st.rooms_busy_at_slot[slot]))]
              IN [st EXCEPT
                    !.ws[e] = Assign(exam, slot[1], slot[2], room),
                    !.students_per_day[slot[1]] = @ \cup exam_students,
                    !.rooms_busy_at_slot[slot] = @ \cup {room},
                    !.scheduled_count = @ + 1]

ProcessExam ==
    /\ pc = "loop"
    /\ idx <= Len(pending_exams)
    /\ LET st == ProcessOne(LoopState(ws, students_per_day, rooms_busy_at_slot,
                                      scheduled_count, failed_count),
                            pending_exams[idx], rooms_by_capacity)
       IN /\ ws' = st.ws
          /\ students_per_day' = st.students_per_day
          /\ rooms_busy_at_slot' = st.rooms_busy_at_slot
          /\ scheduled_count' = st.scheduled_count
          /\ failed_count' = st.failed_count
    /\ idx' = idx + 1
    /\ UNCHANGED <<inputs, exams, pc, pending_exams, rooms_by_capacity, result,
                   prev_op, fresh_run, ops, staff>>

ScheduleCommit ==
    /\ pc = "loop"
    /\ idx > Len(pending_exams)
    /\ exams' = ws
    /\ result' = Some([total_exams |-> Len(pending_exams),
                       scheduled_count |-> scheduled_count,
                       failed_count |-> failed_count])
    /\ prev_op' = "schedule"
    /\ pc' = "idle"
    /\ ws' = <<>>
    /\ pending_exams' = <<>>
    /\ rooms_by_capacity' = <<>>
    /\ students_per_day' = <<>>
    /\ rooms_busy_at_slot' = <<>>
    /\ idx' = 0
    /\ scheduled_count' = 0
    /\ failed_count' = 0
    /\ UNCHANGED <<inputs, fresh_run, ops, staff>>

----------------------------------------------------------------------------
(* clear_session_schedule: every scheduled exam back to pending, and the   *)
(* supervisor rows of the session's exams deleted                          *)

Cleared(ex) ==
    IF ex.status = "scheduled"
      THEN [ex EXCEPT !.status = "pending", !.scheduled_date = None,
                      !.start_time = None, !.room_id = None]
      ELSE ex

ClearSession ==
    /\ pc = "idle"
    /\ ops < MaxOps
    /\ ExistingExams # {}          \* otherwise no row changes
    /\ exams' = [e \in DOMAIN exams |-> Cleared(exams[e])]
    /\ supervisors' = SelectSeq(supervisors, LAMBDA s : s.exam_id \notin DOMAIN exams)
    /\ result' = None
    /\ prev_op' = "clear"
    /\ fresh_run' = FALSE
    /\ ops' = ops + 1
    /\ UNCHANGED <<inputs, pc, locals, professors, asg, reply>>

----------------------------------------------------------------------------

Next ==
    \/ \E k \in {Cardinality(DOMAIN modules) - 1, Cardinality(DOMAIN modules)} :
          PrepareSession(k)
    \/ ScheduleLoad
    \/ ProcessExam
    \/ ScheduleCommit
    \/ ClearSession

Spec == Init /\ [][Next]_vars

----------------------------------------------------------------------------
(* get_schedule_conflicts: the time test and the room pass *)

Minutes(t) == t.hour * 60 + t.minute
Max2(a, b) == IF a >= b THEN a ELSE b
Min2(a, b) == IF a <= b THEN a ELSE b

times_overlap_Closed(start1, dur1, start2, dur2) ==
    IF start1 = None \/ start2 = None THEN FALSE
    ELSE LET m1 == Minutes(Val(start1))
             m2 == Minutes(Val(start2))
         IN Max2(m1, m2) <= Min2(m1 + dur1, m2 + dur2)

times_overlap(start1, dur1, start2, dur2) ==
    IF start1 = None \/ start2 = None THEN FALSE
    ELSE LET m1 == Minutes(Val(start1))
             m2 == Minutes(Val(start2))
         IN Max2(m1, m2) < Min2(m1 + dur1, m2 + dur2)

\* rows of the query: scheduled exams joined with their room
exams_rows(tbl) ==
    {e \in DOMAIN tbl : /\ tbl[e].status = "scheduled"
                        /\ tbl[e].room_id # None
                        /\ Val(tbl[e].room_id) \in DOMAIN rooms}

RoomOverlapConflicts(tbl) ==
    {p \in exams_rows(tbl) \X exams_rows(tbl) :
        /\ p[1] < p[2]
        /\ tbl[p[1]].room_id = tbl[p[2]].room_id
        /\ tbl[p[1]].scheduled_date = tbl[p[2]].scheduled_date
        /\ times_overlap(tbl[p[1]].start_time, tbl[p[1]].duration_minutes,
                         tbl[p[2]].start_time, tbl[p[2]].duration_minutes)}

----------------------------------------------------------------------------
(* assign_exam_supervisors *)

MIN_SUPERVISORS == 2
STUDENTS_PER_SUPERVISOR == 25
DEFAULT_MAX_EXAMS_PER_DAY == 3
SAME_DEPT_SCORE == 20
LOAD_PENALTY == 5

\* the orders a query without ORDER BY can return the ids S in
AnyOrders(S) ==
    {s \in [1..Cardinality(S) -> S] :
        \A i, j \in 1..Cardinality(S) : i # j => s[i] # s[j]}

count_needed_FloorOnly(exam) ==
    Max2(MIN_SUPERVISORS, exam.expected_students \div STUDENTS_PER_SUPERVISOR)

count_needed(exam) ==
    Max2(MIN_SUPERVISORS, (exam.expected_students \div STUDENTS_PER_SUPERVISOR) + 1)

\* ids of the professors the query returns: the active ones
prof_dict == {p \in DOMAIN professors : professors[p].is_active}

\* the supervisor rows of the scheduled exams
existing_assignments ==
    SelectSeq(supervisors, LAMBDA s : s.exam_id \in ExistingExams)

RowsOf(rows, Test(_)) == {i \in 1..Len(rows) : Test(rows[i])}

ExamSlot(exam) == <<exam.scheduled_date, exam.start_time>>

InitProfBusy_Empty(ea) == [p \in prof_dict |-> {}]

\* prof_busy after the pre-fill from the existing rows
InitProfBusy(ea) ==
    [p \in prof_dict |->
        {ExamSlot(exams[ea[i].exam_id]) :
            i \in RowsOf(ea, LAMBDA s : s.professor_id = p)}]

InitProfLoad(ea) ==
    [p \in prof_dict |-> Cardinality(RowsOf(ea, LAMBDA s : s.professor_id = p))]

\* prof.max_exams_per_day or 3
DailyLimit(prof) ==
    IF prof.max_exams_per_day = 0 THEN DEFAULT_MAX_EXAMS_PER_DAY
                                  ELSE prof.max_exams_per_day

\* entries of a professor's busy set on a date
DayCount(busy, date) == Cardinality({k \in busy : k[1] = date})

\* department of the formation of a module
exam_dept_id(exam) == modules[exam.module_id].department_id

Candidates_AllProfessors(exam, prof_busy, current_sups) == prof_dict

\* the professors that pass the three tests for an exam
Candidates(exam, prof_busy, current_sups) ==
    {pid \in prof_dict :
        /\ ExamSlot(exam) \notin prof_busy[pid]
        /\ DayCount(prof_busy[pid], exam.scheduled_date)
              < DailyLimit(professors[pid])
        /\ \A i \in 1..Len(current_sups) : current_sups[i].professor_id # pid}

\* the score without its random part
Score(pid, exam, prof_load) ==
    (IF professors[pid].department_id = exam_dept_id(exam)
       THEN SAME_DEPT_SCORE ELSE 0) - prof_load[pid] * LOAD_PENALTY

JitterSteps == 2     \* random.random() is counted in units of 1/JitterSteps

\* a random part as large as the penalty of one supervision
Jitters_UpToPenalty(cands) == [cands -> 0..(LOAD_PENALTY * JitterSteps)]

\* the random parts of the candidates: each in [0, 1)
Jitters(cands) == [cands -> 0..(JitterSteps - 1)]

\* the orders the sort can leave the candidates in: descending score with
\* its random part, candidates of equal total in the order of the query
Rankings(cands, exam, prof_load) ==
    UNION {OrdersBy(cands,
                    LAMBDA pid : Score(pid, exam, prof_load) * JitterSteps
                                    + jitter[pid],
                    TRUE) : jitter \in Jitters(cands)}

Role_FirstPick(i, n_current) ==
    IF i = 0 THEN "responsible" ELSE "supervisor"

\* role of the pick number i (from 0) for an exam with n_current supervisors
Role(i, n_current) ==
    IF i = 0 /\ n_current = 0 THEN "responsible" ELSE "supervisor"

ExamSupervisor(e, pid, role) ==
    [exam_id |-> e, professor_id |-> pid, role |-> role,
     is_department_exam |->
        (professors[pid].department_id = exam_dept_id(exams[e]))]

\* the body of the loop for the exam e, the candidates ranked as in ranked
AssignOne(st, e, ranked) ==
    LET exam == exams[e]
        current_sups ==
            SelectSeq(st.existing_assignments, LAMBDA s : s.exam_id = e)
        needed == count_needed(exam) - Len(current_sups)
        n == Min2(Len(ranked), needed)
        picked == {ranked[i] : i \in 1..n}
    IN IF Len(current_sups) >= count_needed(exam) THEN st
       ELSE [st EXCEPT
               !.new_sups = @ \o [i \in 1..n |->
                    ExamSupervisor(e, ranked[i], Role(i - 1, Len(current_sups)))],
               !.prof_busy = [p \in DOMAIN @ |->
                    IF p \in picked THEN @[p] \cup {ExamSlot(exam)} ELSE @[p]],
               !.prof_load = [p \in DOMAIN @ |->
                    IF p \in picked THEN @[p] + 1 ELSE @[p]],
               !.new_assignments = @ + n]

AssignLoad ==
    /\ pc = "idle"
    /\ ops < MaxOps
    /\ ExistingExams # {}          \* otherwise the call returns at once
    /\ ops' = ops + 1
    /\ \E order \in AnyOrders(ExistingExams) :
          asg' = Some([exams |-> order,
                       existing_assignments |-> existing_assignments,
                       prof_busy |-> InitProfBusy(existing_assignments),
                       prof_load |-> InitProfLoad(existing_assignments),
                       new_sups |-> <<>>,
                       new_assignments |-> 0,
                       idx |-> 1])
    /\ pc' = "assign"
    /\ UNCHANGED <<inputs, exams, locals, result, prev_op, fresh_run,
                   professors, supervisors, reply>>

AssignExam ==
    /\ pc = "assign"
    /\ Val(asg).idx <= Len(Val(asg).exams)
    /\ LET st == Val(asg)
           e == st.exams[st.idx]
           current_sups ==
               SelectSeq(st.existing_assignments, LAMBDA s : s.exam_id = e)
           cands == Candidates(exams[e], st.prof_busy, current_sups)
       IN \E ranked \in Rankings(cands, exams[e], st.prof_load) :
             asg' = Some([AssignOne(st, e, ranked) EXCEPT !.idx = @ + 1])
    /\ UNCHANGED <<inputs, exams, pc, locals, result, prev_op, fresh_run, ops,
                   professors, supervisors, reply>>

\* the unique constraint of exam_supervisors on (exam_id, professor_id)
unique_supervisor(rows) ==
    \A i, j \in 1..Len(rows) :
       (i # j) => <<rows[i].exam_id, rows[i].professor_id>>
                    # <<rows[j].exam_id, rows[j].professor_id>>

AssignCommit ==
    /\ pc = "assign"
    /\ Val(asg).idx > Len(Val(asg).exams)
    /\ LET st == Val(asg)
       IN IF unique_supervisor(supervisors \o st.new_sups)
            THEN /\ supervisors' = supervisors \o st.new_sups
                 /\ reply' = Some([endpoint |-> "assign_supervisors",
                                   assignments_made |-> st.new_assignments,
                                   professors_used |-> Cardinality(
                                      {p \in DOMAIN st.prof_load :
                                          st.prof_load[p] > 0})])
            ELSE /\ supervisors' = supervisors     \* the commit fails
                 /\ reply' = Some([endpoint |-> "assign_supervisors",
                                   error |-> "IntegrityError"])
    /\ asg' = None
    /\ pc' = "idle"
    /\ prev_op' = "assign"
    /\ UNCHANGED <<inputs, exams, locals, result, fresh_run, ops, professors>>

\* update_professor with is_active = true
ActivateProfessor(p) ==
    /\ pc = "idle"
    /\ ops < MaxOps
    /\ ~professors[p].is_active
    /\ professors' = [professors EXCEPT ![p].is_active = TRUE]
    /\ ops' = ops + 1
    /\ prev_op' = "update_professor"
    /\ UNCHANGED <<inputs, exams, pc, locals, result, fresh_run, supervisors,
                   asg, reply>>

----------------------------------------------------------------------------
(* A batch request that is cancelled or fails before its commit: get_db    *)
(* rolls the session back or closes it uncommitted, so the objects of the  *)
(* request are dropped.                                                    *)

\* the request's objects are written out although the request ended
ScheduleAbort_Flushed ==
    /\ pc = "loop"
    /\ exams' = ws
    /\ reply' = Some([endpoint |-> "schedule_session", error |-> Some("Aborted"),
                      handled |-> idx - 1, loaded |-> Len(pending_exams)])
    /\ prev_op' = "schedule_aborted"
    /\ pc' = "idle"
    /\ ws' = <<>>
    /\ pending_exams' = <<>>
    /\ rooms_by_capacity' = <<>>
    /\ students_per_day' = <<>>
    /\ rooms_busy_at_slot' = <<>>
    /\ idx' = 0
    /\ scheduled_count' = 0
    /\ failed_count' = 0
    /\ UNCHANGED <<inputs, result, fresh_run, ops, professors, supervisors, asg>>

ScheduleAbort ==
    /\ pc = "loop"
    /\ exams' = exams
    /\ reply' = Some([endpoint |-> "schedule_session", error |-> Some("Aborted"),
                      handled |-> idx - 1, loaded |-> Len(pending_exams)])
    /\ prev_op' = "schedule_aborted"
    /\ pc' = "idle"
    /\ ws' = <<>>
    /\ pending_exams' = <<>>
    /\ rooms_by_capacity' = <<>>
    /\ students_per_day' = <<>>
    /\ rooms_busy_at_slot' = <<>>
    /\ idx' = 0
    /\ scheduled_count' = 0
    /\ failed_count' = 0
    /\ UNCHANGED <<inputs, result, fresh_run, ops, professors, supervisors, asg>>

AssignAbort ==
    /\ pc = "assign"
    /\ supervisors' = supervisors
    /\ reply' = Some([endpoint |-> "assign_supervisors",
                      error |-> Some("Aborted"),
                      handled |-> Val(asg).idx - 1,
                      loaded |-> Len(Val(asg).exams)])
    /\ prev_op' = "assign_aborted"
    /\ pc' = "idle"
    /\ asg' = None
    /\ UNCHANGED <<inputs, exams, locals, result, fresh_run, ops, professors>>

----------------------------------------------------------------------------
(* The two batch endpoints called with a session_id that no ExamSession    *)
(* row has: the first query finds nothing and the request ends with 404.   *)

SessionIds == {"session"}        \* ids of the ExamSession rows
UnknownSessionIds == {"unknown"} \* ids a request can carry that no row has

\* the request goes on without a session and reports an empty run
ScheduleSessionNotFound_EmptyRun(session_id) ==
    /\ pc = "idle"
    /\ session_id \notin SessionIds
    /\ reply' = Some([endpoint |-> "schedule_session", session_id |-> session_id,
                      error |-> None])
    /\ prev_op' = "schedule_unknown_session"
    /\ UNCHANGED <<inputs, exams, pc, locals, result, fresh_run, ops,
                   professors, supervisors, asg>>

ScheduleSessionNotFound(session_id) ==
    /\ pc = "idle"
    /\ session_id \notin SessionIds
    /\ reply' = Some([endpoint |-> "schedule_session", session_id |-> session_id,
                      error |-> Some("NotFound")])
    /\ prev_op' = "schedule_unknown_session"
    /\ UNCHANGED <<inputs, exams, pc, locals, result, fresh_run, ops,
                   professors, supervisors, asg>>

AssignSupervisorsNotFound(session_id) ==
    /\ pc = "idle"
    /\ session_id \notin SessionIds
    /\ reply' = Some([endpoint |-> "assign_supervisors", session_id |-> session_id,
                      error |-> Some("NotFound")])
    /\ prev_op' = "assign_unknown_session"
    /\ UNCHANGED <<inputs, exams, pc, locals, result, fresh_run, ops,
                   professors, supervisors, asg>>

----------------------------------------------------------------------------
(* get_schedule_conflicts.  The report is a list whose order follows        *)
(* queries without ORDER BY; it is modelled as the bag of its records.     *)

STUDENT_CONFLICT_CAP == 50

ConflictRecord(type, severity, item, detail) ==
    [type |-> type, severity |-> severity, item |-> item, detail |-> detail]

\* the bag of the records rec(i), one for each i of I
BagOfFamily(I, rec(_)) ==
    [r \in {rec(i) : i \in I} |-> Cardinality({i \in I : rec(i) = r})]

\* capacity check of the row at each position of rows
CapacityRecords(rows) ==
    BagOfFamily({i \in 1..Len(rows) :
                    exams[rows[i]].expected_students
                       > rooms[Val(exams[rows[i]].room_id)].exam_capacity},
                LAMBDA i : ConflictRecord("Capacity", "High",
                               Val(exams[rows[i]].room_id),
                               <<exams[rows[i]].module_id,
                                 exams[rows[i]].expected_students>>))

RoomPairs_EveryOrder(rows) ==
    {p \in (1..Len(rows)) \X (1..Len(rows)) :
        /\ p[1] # p[2]
        /\ exams[rows[p[1]]].room_id = exams[rows[p[2]]].room_id
        /\ exams[rows[p[1]]].scheduled_date = exams[rows[p[2]]].scheduled_date
        /\ times_overlap(exams[rows[p[1]]].start_time,
                         exams[rows[p[1]]].duration_minutes,
                         exams[rows[p[2]]].start_time,
                         exams[rows[p[2]]].duration_minutes)}

\* the positions <<i, j>> of rows for which the room pass appends a record
RoomPairs(rows) ==
    {p \in (1..Len(rows)) \X (1..Len(rows)) :
        /\ p[1] < p[2]
        /\ exams[rows[p[1]]].room_id = exams[rows[p[2]]].room_id
        /\ exams[rows[p[1]]].scheduled_date = exams[rows[p[2]]].scheduled_date
        /\ times_overlap(exams[rows[p[1]]].start_time,
                         exams[rows[p[1]]].duration_minutes,
                         exams[rows[p[2]]].start_time,
                         exams[rows[p[2]]].duration_minutes)}

RoomOverlapRecords(rows) ==
    BagOfFamily(RoomPairs(rows),
                LAMBDA p : ConflictRecord("Room Overlap", "Critical",
                               Val(exams[rows[p[1]]].room_id),
                               <<exams[rows[p[1]]].module_id,
                                 exams[rows[p[2]]].module_id,
                                 exams[rows[p[1]]].start_time>>))

\* the supervisor rows the second query returns, in insertion order
sups == SelectSeq(supervisors,
                  LAMBDA s : /\ s.exam_id \in ExistingExams
                             /\ s.professor_id \in DOMAIN professors)

ProfessorOverlapRecords ==
    BagOfFamily({p \in (1..Len(sups)) \X (1..Len(sups)) :
                    /\ p[1] < p[2]
                    /\ sups[p[1]].professor_id = sups[p[2]].professor_id
                    /\ exams[sups[p[1]].exam_id].scheduled_date
                          = exams[sups[p[2]].exam_id].scheduled_date
                    /\ times_overlap(exams[sups[p[1]].exam_id].start_time,
                                     exams[sups[p[1]].exam_id].duration_minutes,
                                     exams[sups[p[2]].exam_id].start_time,
                                     exams[sups[p[2]].exam_id].duration_minutes)},
                LAMBDA p : ConflictRecord("Professor Overlap", "Critical",
                               sups[p[1]].professor_id,
                               <<exams[sups[p[1]].exam_id].module_id,
                                 exams[sups[p[2]].exam_id].module_id>>))

\* module_id -> the exam whose timing the student pass uses
mod_timing == [m \in {exams[e].module_id : e \in exams_rows(exams)} |->
                 CHOOSE e \in exams_rows(exams) : exams[e].module_id = m]

\* student_id -> the student's enrollment rows whose module has a timing
student_busy(mt) ==
    [sid \in {x[1] : x \in enrollments} |->
        {x \in enrollments : x[1] = sid /\ x[2] \in DOMAIN mt}]

\* the pairs of entries of one busy list that the inner loops accept
BusyOverlaps(busy_list, mt) ==
    {p \in busy_list \X busy_list :
        /\ p[1] # p[2]
        /\ exams[mt[p[1][2]]].scheduled_date = exams[mt[p[2][2]]].scheduled_date
        /\ times_overlap(exams[mt[p[1][2]]].start_time,
                         exams[mt[p[1][2]]].duration_minutes,
                         exams[mt[p[2][2]]].start_time,
                         exams[mt[p[2][2]]].duration_minutes)}

\* the students for whom the inner loops find a pair
StudentsWithOverlap(sb, mt) ==
    {sid \in DOMAIN sb : BusyOverlaps(sb[sid], mt) # {}}

\* the two modules a student's record can name: the first pair found, in
\* the order of the student's rows, is any accepted pair
DetailChoices(busy_list, mt) ==
    {{p[1][2], p[2][2]} : p \in BusyOverlaps(busy_list, mt)}

ReportedCount_Uncapped(n) == n

\* students reported out of n with an overlap: the loop over the students
\* stops once count >= 50
ReportedCount(n) == Min2(n, STUDENT_CONFLICT_CAP)

\* the sets S loses k elements to
RECURSIVE Dropping(_, _)
Dropping(S, k) ==
    IF k = 0 THEN {S}
    ELSE UNION {Dropping(S \ {x}, k - 1) : x \in S}

\* the students the loop reaches before it stops: the dictionary follows the
\* order of the enrollment rows, which no ORDER BY fixes
ReportedStudents(with_overlap) ==
    Dropping(with_overlap,
             Cardinality(with_overlap) - ReportedCount(Cardinality(with_overlap)))

\* the functions that give each student of T one of the student's choices
RECURSIVE StudentDetails(_, _)
StudentDetails(T, choices) ==
    IF T = {} THEN {<<>>}
    ELSE LET s == CHOOSE x \in T : TRUE
         IN {(s :> c) @@ d : c \in choices[s],
                             d \in StudentDetails(T \ {s}, choices)}

StudentOverlapRecords(T, d) ==
    SetToBag({ConflictRecord("Student Overlap", "Critical", s, d[s]) : s \in T})

\* a report that also takes the second exam of every room overlap off the
\* schedule
GetScheduleConflicts_Resolving ==
    /\ pc = "idle"
    /\ exams' = [e \in DOMAIN exams |->
                   IF \E p \in RoomOverlapConflicts(exams) : p[2] = e
                     THEN Cleared(exams[e]) ELSE exams[e]]
    /\ reply' = Some([endpoint |-> "conflicts",
                      conflicts |-> SetToBag({ConflictRecord("Room Overlap",
                          "Critical", Val(exams[p[1]].room_id),
                          <<p[1], p[2], exams[p[1]].start_time>>) :
                             p \in RoomOverlapConflicts(exams)})])
    /\ prev_op' = "conflicts"
    /\ UNCHANGED <<inputs, pc, locals, result, fresh_run, ops,
                   professors, supervisors, asg>>

GetScheduleConflicts ==
    /\ pc = "idle"
    /\ LET mt == mod_timing
           sb == student_busy(mt)
           with_overlap == StudentsWithOverlap(sb, mt)
           choices == [s \in with_overlap |-> DetailChoices(sb[s], mt)]
       IN \E rows \in AnyOrders(exams_rows(exams)) :
          \E d \in StudentDetails(with_overlap, choices) :
             LET first_passes == CapacityRecords(rows)
                                 (+) RoomOverlapRecords(rows)
                                 (+) ProfessorOverlapRecords
             IN \E T \in ReportedStudents(with_overlap) :
                   reply' = Some([endpoint |-> "conflicts",
                                  conflicts |-> first_passes
                                     (+) StudentOverlapRecords(T, d)])
    /\ prev_op' = "conflicts"
    /\ UNCHANGED <<inputs, exams, pc, locals, result, fresh_run, ops,
                   professors, supervisors, asg>>

----------------------------------------------------------------------------
(* Scheduling followed by supervisor assignment.  The session is prepared, *)
(* every module has its pending exam; the professors are a part of a small *)
(* catalog, one of them inactive until update_professor activates them.    *)

LargeClass == 50     \* students enrolled in the module of the large exam

Professor(dept, max, active) ==
    [department_id |-> dept, max_exams_per_day |-> max, is_active |-> active]

\* update_professor accepts any integer as max_exams_per_day, 0 included
ProfessorCatalog ==
    (1 :> Professor(1, 3, TRUE)) @@ (2 :> Professor(2, 3, TRUE)) @@
    (3 :> Professor(1, 1, TRUE)) @@ (4 :> Professor(2, 0, TRUE)) @@
    (5 :> Professor(2, 3, FALSE))

ProfessorsOf(S) == [p \in S |-> ProfessorCatalog[p]]

\* a plain module of a department
DeptModule(dur, dept) ==
    Module(dur, FALSE, FALSE) @@ [department_id |-> dept]

Prepared == [m \in DOMAIN modules |-> NewExam(m)]

\* a large exam and a small one in one room on one day
InitSupCount ==
    /\ session = [start_date |-> 3, end_date |-> 3]
    /\ rooms = RoomsOf({4})
    /\ modules = (1 :> DeptModule(120, 1)) @@ (2 :> DeptModule(120, 2))
    /\ enrollments = (1..LargeClass) \X {1} \X {1}
    /\ professors \in {ProfessorsOf(S) : S \in {{1, 2, 3}, {1, 2, 5}, {1, 5}}}

\* three exams in two rooms, the second one of three hours
InitSupDurations ==
    /\ session = [start_date |-> 3, end_date |-> 3]
    /\ rooms = RoomsOf({1, 2})
    /\ modules = (1 :> DeptModule(120, 1)) @@ (2 :> DeptModule(180, 1)) @@
                 (3 :> DeptModule(120, 1))
    /\ enrollments = {}
    /\ professors = ProfessorsOf({1, 2})

\* two exams on one day, professors with small daily limits
InitSupLimits ==
    /\ session = [start_date |-> 3, end_date |-> 3]
    /\ rooms = RoomsOf({1})
    /\ modules = (1 :> DeptModule(120, 1)) @@ (2 :> DeptModule(120, 2))
    /\ enrollments = {}
    /\ professors \in {ProfessorsOf(S) : S \in {{1, 3}, {3, 4}, {1, 2, 3}}}

InitSup ==
    /\ InitSupCount \/ InitSupDurations \/ InitSupLimits
    /\ exams = Prepared
    /\ InitIdle

NextSup ==
    \/ ScheduleLoad
    \/ ProcessExam
    \/ ScheduleCommit
    \/ ClearSession
    \/ AssignLoad
    \/ AssignExam
    \/ AssignCommit
    \/ \E p \in DOMAIN professors : ActivateProfessor(p)
    \/ GetScheduleConflicts
    \/ \E sid \in UnknownSessionIds : ScheduleSessionNotFound(sid)
    \/ \E sid \in UnknownSessionIds : AssignSupervisorsNotFound(sid)
    \/ ScheduleAbort
    \/ AssignAbort

SupSpec == InitSup /\ [][NextSup]_vars

----------------------------------------------------------------------------
(* get_available_slots *)

DEFAULT_LIMIT == 20

AvailableSlot(slot_date, slot_time, room_id, position) ==
    [slot_date |-> slot_date, slot_time |-> slot_time, room_id |-> room_id,
     room_capacity |-> rooms[room_id].exam_capacity,
     score |-> 100 - position]

\* the rooms the query returns for the exam, from the rooms in the order ro:
\* capacity against the number of enrollment rows, both equipment filters
CompatibleRooms(exam, ro) ==
    SelectSeq(ro, LAMBDA r :
        /\ rooms[r].exam_capacity >= student_counts(exam.module_id)
        /\ exam.requires_computer => rooms[r].has_computers
        /\ exam.requires_lab => rooms[r].room_type = "lab")

\* every (slot, room) in the order of the three nested loops
SlotRoomPairs(rms) ==
    [k \in 1..(Len(all_slots) * Len(rms)) |->
        <<all_slots[((k - 1) \div Len(rms)) + 1], rms[((k - 1) % Len(rms)) + 1]>>]

\* the day test, made only when the caller passes a non-empty students_per_day
DayOpen(exam, date, ms, spd) ==
    \/ spd = None
    \/ DOMAIN Val(spd) = {}
    \/ exam.module_id \notin DOMAIN Val(ms)
    \/ DayFree(Val(ms)[exam.module_id], Val(spd)[date])

\* the reply for the exam e: the keyword arguments module_students,
\* students_per_day and rooms_busy_at_slot are None unless the caller passes
\* them, and rooms_busy_at_slot.get is evaluated for the first room reached
AvailableSlots(e, limit, ro, ms, spd, rbs) ==
    LET exam == exams[e]
        rms == CompatibleRooms(exam, ro)
        open == SelectSeq(SlotRoomPairs(rms),
                          LAMBDA x : DayOpen(exam, x[1][1], ms, spd))
    IN IF limit <= 0 \/ Len(open) = 0
         THEN [error |-> None, slots |-> <<>>]
       ELSE IF rbs = None
         THEN [error |-> Some("AttributeError"), slots |-> <<>>]
       ELSE LET free == SelectSeq(open, LAMBDA x : x[2] \notin Val(rbs)[x[1]])
                n == Min2(limit, Len(free))
            IN [error |-> None,
                slots |-> [i \in 1..n |->
                    AvailableSlot(free[i][1][1], free[i][1][2], free[i][2], i - 1)]]

GetAvailableSlots(e, limit) ==
    /\ pc = "idle"
    /\ \E ro \in RoomOrders :
          reply' = Some([endpoint |-> "available_slots", exam_id |-> e,
                         limit |-> limit,
                         result |-> AvailableSlots(e, limit, ro, None, None, None)])
    /\ prev_op' = "available_slots"
    /\ UNCHANGED <<inputs, exams, pc, locals, result, fresh_run, ops,
                   professors, supervisors, asg>>

----------------------------------------------------------------------------
(* schedule_single_exam: the first available slot of the exam, if any *)

ScheduleSingleExam(e) ==
    /\ pc = "idle"
    /\ \E ro \in RoomOrders :
          LET slots == AvailableSlots(e, 1, ro, None, None, None)
          IN IF slots.error # None
               THEN /\ reply' = Some([endpoint |-> "schedule_exam", exam_id |-> e,
                                      error |-> slots.error])
                    /\ exams' = exams
             ELSE IF slots.slots = <<>>
               THEN /\ reply' = Some([endpoint |-> "schedule_exam", exam_id |-> e,
                                      error |-> None, success |-> FALSE])
                    /\ exams' = exams
             ELSE LET best_slot == slots.slots[1]
                  IN /\ reply' = Some([endpoint |-> "schedule_exam",
                                       exam_id |-> e, error |-> None,
                                       success |-> TRUE,
                                       scheduled_date |-> best_slot.slot_date,
                                       scheduled_time |-> best_slot.slot_time])
                     /\ exams' = [exams EXCEPT ![e] =
                                    Assign(@, best_slot.slot_date,
                                           best_slot.slot_time, best_slot.room_id)]
    /\ prev_op' = "schedule_exam"
    /\ UNCHANGED <<inputs, pc, locals, result, fresh_run, ops, professors,
                   supervisors, asg>>

----------------------------------------------------------------------------
(* update_exam with the three schedule fields: the manual override *)

ManualTimes == {Time(8, 30), Time(10, 30)}

UpdateExam(e, d, t, r) ==
    /\ pc = "idle"
    /\ exams' = [exams EXCEPT ![e].scheduled_date = Some(d),
                              ![e].start_time = Some(t),
                              ![e].room_id = Some(r),
                              ![e].status = "scheduled"]
    /\ exams' # exams              \* otherwise no row changes
    /\ reply' = Some([endpoint |-> "update_exam", exam_id |-> e])
    /\ prev_op' = "update_exam"
    /\ UNCHANGED <<inputs, pc, locals, result, fresh_run, ops, professors,
                   supervisors, asg>>

----------------------------------------------------------------------------
(* The interactive endpoints on a prepared session: manual overrides, the   *)
(* conflict report, the slots of one exam.                                 *)

\* three exams, two students, a room too small for two students
InitDeskSmall ==
    /\ session = [start_date |-> 3, end_date |-> 3]
    /\ rooms = RoomsOf({1, 5})
    /\ modules = (1 :> DeptModule(120, 1)) @@ (2 :> DeptModule(120, 1)) @@
                 (3 :> DeptModule(180, 2))
    /\ enrollments \in {{}, (1..2) \X (1..2) \X {1},
                        {<<1, 1, 1>>, <<1, 2, 1>>, <<2, 2, 1>>, <<2, 3, 1>>}}

\* one more student than the report names, all in the same two modules
InitDeskCrowd ==
    /\ session = [start_date |-> 3, end_date |-> 3]
    /\ rooms = RoomsOf({4})
    /\ modules = (1 :> DeptModule(120, 1)) @@ (2 :> DeptModule(120, 1))
    /\ enrollments = (1..(STUDENT_CONFLICT_CAP + 1)) \X (1..2) \X {1}

\* two exams of two students each and only the room of one seat
InitDeskTight ==
    /\ session = [start_date |-> 3, end_date |-> 3]
    /\ rooms = RoomsOf({5})
    /\ modules = (1 :> DeptModule(120, 1)) @@ (2 :> DeptModule(120, 1))
    /\ enrollments = (1..2) \X (1..2) \X {1}

InitDesk ==
    /\ InitDeskSmall \/ InitDeskCrowd \/ InitDeskTight
    /\ professors = <<>>
    /\ exams = Prepared
    /\ InitIdle

NextDesk ==
    \/ \E e \in DOMAIN exams, d \in Dates, t \in ManualTimes, r \in DOMAIN rooms :
          UpdateExam(e, d, t, r)
    \/ GetScheduleConflicts
    \/ \E e \in DOMAIN exams, limit \in {0, DEFAULT_LIMIT} :
          GetAvailableSlots(e, limit)
    \/ \E e \in DOMAIN exams : ScheduleSingleExam(e)

DeskSpec == InitDesk /\ [][NextDesk]_vars

----------------------------------------------------------------------------
(* times_overlap on its own: the arguments are drawn, then it is applied *)

OverlapStarts == {None, Some(Time(8, 30)), Some(Time(10, 30)), Some(Time(11, 0))}
OverlapDurations == {30, 120, 150}

InitOverlap ==
    /\ session = [start_date |-> 3, end_date |-> 3]
    /\ rooms = <<>>
    /\ modules = <<>>
    /\ enrollments = {}
    /\ professors = <<>>
    /\ exams = <<>>
    /\ pc = "idle"
    /\ IdleLocals
    /\ result = None
    /\ prev_op = "none"
    /\ fresh_run = FALSE
    /\ ops = 0
    /\ supervisors = <<>>
    /\ asg = None
    /\ reply \in {Some([start1 |-> s1, dur1 |-> d1, start2 |-> s2, dur2 |-> d2,
                        returned |-> None]) :
                     s1 \in OverlapStarts, d1 \in OverlapDurations,
                     s2 \in OverlapStarts, d2 \in OverlapDurations}

TimesOverlapCall ==
    /\ Val(reply).returned = None
    /\ reply' = Some([Val(reply) EXCEPT !.returned =
                        Some(times_overlap(Val(reply).start1, Val(reply).dur1,
                                           Val(reply).start2, Val(reply).dur2))])
    /\ prev_op' = "times_overlap"
    /\ UNCHANGED <<inputs, exams, pc, locals, result, fresh_run, ops,
                   professors, supervisors, asg>>

OverlapSpec == InitOverlap /\ [][TimesOverlapCall]_vars

----------------------------------------------------------------------------
(* The slot generation on its own: the session dates are drawn, end before *)
(* start included, then the slots of the session are generated.            *)

LastDay == 10        \* session dates are days 0..LastDay

InitSlots ==
    /\ session \in [start_date : 0..LastDay, end_date : 0..LastDay]
    /\ rooms = <<>>
    /\ modules = <<>>
    /\ enrollments = {}
    /\ professors = <<>>
    /\ exams = <<>>
    /\ InitIdle

GenerateSlots ==
    /\ reply = None
    /\ reply' = Some([endpoint |-> "all_slots", slots |-> all_slots])
    /\ prev_op' = "all_slots"
    /\ UNCHANGED <<inputs, exams, pc, locals, result, fresh_run, ops,
                   professors, supervisors, asg>>

SlotSpec == InitSlots /\ [][GenerateSlots]_vars

----------------------------------------------------------------------------
(* The room filter on its own: one pending exam whose stored               *)
(* expected_students is any value, whatever the enrollment rows of its     *)
(* module are now, and rooms of three capacities.                          *)

StoredCounts == {0, 1, 60}

InitCount ==
    /\ session = [start_date |-> 3, end_date |-> 3]
    /\ rooms \in {RoomsOf(S) : S \in SUBSET {1, 2, 5}}
    /\ modules = PlainModules(1)
    /\ enrollments \in SUBSET (Students \X {1} \X Years)
    /\ exams \in {(1 :> [NewExam(1) EXCEPT !.expected_students = x]) :
                     x \in StoredCounts}
    /\ professors = <<>>
    /\ InitIdle

NextCount ==
    \/ ScheduleLoad
    \/ ProcessExam
    \/ ScheduleCommit

CountSpec == InitCount /\ [][NextCount]_vars

----------------------------------------------------------------------------
(* Properties *)

\* the exam tables a state holds: the persisted one and, during a run, the
\* objects of the request
Tables == IF pc = "loop" THEN {exams, ws} ELSE {exams}

Scheduled(tbl) == {e \in DOMAIN tbl : tbl[e].status = "scheduled"}
SlotOf(ex) == <<ex.room_id, ex.scheduled_date, ex.start_time>>
ShareStudent(tbl, a, b) ==
    module_students(tbl[a].module_id) \cap module_students(tbl[b].module_id) # {}

NoDoubleBooking(tbl) ==
    \A a, b \in Scheduled(tbl) : a # b => SlotOf(tbl[a]) # SlotOf(tbl[b])

\* C1: during and after a run that found every exam of the session pending,
\* no two scheduled exams have the same (room_id, scheduled_date, start_time).
C1_RoomSlotExclusive ==
    fresh_run => \A tbl \in Tables : NoDoubleBooking(tbl)

\* C1 witness: a run from all-pending has ended with two exams in one room.
C1_Witness ==
    /\ fresh_run /\ pc = "idle" /\ prev_op = "schedule"
    /\ \E a, b \in Scheduled(exams) :
          a # b /\ exams[a].room_id = exams[b].room_id

\* C2: after a run the room pass of the conflict report is empty.
C2_NoAuditedRoomOverlap ==
    pc = "idle" => RoomOverlapConflicts(exams) = {}

\* the exams the running request has placed
NewlyPlaced == {e \in Scheduled(ws) : exams[e].status = "pending"}

\* C3: a run on a partially scheduled session gives no newly placed exam the
\* (room, date, time) of an already scheduled exam, nor a day on which an
\* already scheduled exam shares a student with it.
C3_ReentryRespectsExisting ==
    pc = "loop" =>
       \A n \in NewlyPlaced : \A x \in Scheduled(exams) :
          /\ SlotOf(ws[n]) # SlotOf(exams[x])
          /\ ShareStudent(ws, n, x) => ws[n].scheduled_date # exams[x].scheduled_date

\* C4: no two scheduled exams whose modules share a student are on one day.
C4_OneExamPerDayPerStudent ==
    \A tbl \in Tables : \A a, b \in Scheduled(tbl) :
       (a # b /\ ShareStudent(tbl, a, b)) =>
          tbl[a].scheduled_date # tbl[b].scheduled_date

\* C4 witness: two exams sharing a student are both scheduled.
C4_Witness ==
    \E a, b \in Scheduled(exams) : a # b /\ ShareStudent(exams, a, b)

\* C5: a scheduled exam's expected_students fits its room's exam_capacity
\* (so an exam that fits no room is never scheduled).
C5_CapacityRespected ==
    \A tbl \in Tables : \A e \in Scheduled(tbl) :
       tbl[e].expected_students <= rooms[Val(tbl[e].room_id)].exam_capacity

\* C6: a scheduled exam that requires computers is in a room that has them,
\* and one that requires a lab is in a room of type lab.
C6_EquipmentMatches ==
    \A tbl \in Tables : \A e \in Scheduled(tbl) :
       /\ tbl[e].requires_computer => rooms[Val(tbl[e].room_id)].has_computers
       /\ tbl[e].requires_lab => rooms[Val(tbl[e].room_id)].room_type = "lab"

\* C7: a run that directly follows a run places nothing and changes no exam,
\* and the schedule has no room double-booking.
C7_SecondRunNoOp ==
    (pc = "loop" /\ prev_op = "schedule") =>
       /\ scheduled_count = 0
       /\ ws = exams
       /\ NoDoubleBooking(ws)

\* the exam table a run ends with when the queries return the pending exams
\* in the order po and the rooms in the order ro
RECURSIVE RunFrom(_, _, _, _)
RunFrom(st, po, i, ro) ==
    IF i > Len(po) THEN st
    ELSE RunFrom(ProcessOne(st, po[i], ro), po, i + 1, ro)

RunAll(po, ro) ==
    RunFrom(LoopState(exams, InitStudentsPerDay(exams),
                      InitRoomsBusyAtSlot(exams), 0, 0), po, 1, ro).ws

\* C8: the assignments a run ends with are those of every run on the same
\* data (the persisted table is the one the run loaded until it commits).
C8_Deterministic ==
    (pc = "loop" /\ idx > Len(pending_exams)) =>
       \A po \in PendingOrders : \A ro \in RoomOrders : RunAll(po, ro) = ws

Processed == {pending_exams[i] : i \in 1..(idx - 1)}

\* C9: the two counters account for every exam handled so far, a failed exam
\* is left as it was loaded, and the counts returned add up to the number of
\* pending exams loaded, the failed ones being those still pending.
C9_CountsAndIsolation ==
    /\ pc = "loop" =>
          /\ scheduled_count + failed_count = idx - 1
          /\ scheduled_count = Cardinality(Processed \cap Scheduled(ws))
          /\ \A e \in DOMAIN ws : e \notin Scheduled(ws) => ws[e] = exams[e]
    /\ result # None =>
          /\ Val(result).scheduled_count + Val(result).failed_count
                = Val(result).total_exams
          /\ Val(result).failed_count
                = Cardinality({e \in DOMAIN exams : exams[e].status = "pending"})

\* C9 witness: an exam was counted failed and a later one was placed.
C9_Witness ==
    /\ pc = "loop"
    /\ \E i, j \in 1..(idx - 1) :
          /\ i < j
          /\ ws[pending_exams[i]].status = "pending"
          /\ ws[pending_exams[j]].status = "scheduled"

\* C10: in every exam table, an exam is scheduled exactly when its date,
\* its time and its room are all set.
C10_StatusIffAllSet ==
    \A tbl \in Tables : \A e \in DOMAIN tbl :
       (tbl[e].status = "scheduled") <=>
          (/\ tbl[e].scheduled_date # None
           /\ tbl[e].start_time # None
           /\ tbl[e].room_id # None)

\* C10 witness: in the middle of a run one exam is placed and one is not.
C10_Witness ==
    /\ pc = "loop"
    /\ Scheduled(ws) # {}
    /\ \E e \in DOMAIN ws : ws[e].status = "pending" /\ ws[e].room_id = None

----------------------------------------------------------------------------
(* Properties of the supervisor assignment *)

\* the supervisor rows a state holds: the persisted ones and, during a run,
\* the rows the request has added
AllRows == IF pc = "assign" THEN supervisors \o Val(asg).new_sups ELSE supervisors

RowsOfExam(rows, e) == RowsOf(rows, LAMBDA s : s.exam_id = e)
RowsOfProfessor(rows, p) == RowsOf(rows, LAMBDA s : s.professor_id = p)
ExamsOfProfessor(rows, p) == {rows[i].exam_id : i \in RowsOfProfessor(rows, p)}

RequiredSupervisors(expected_students) ==
    Max2(2, (expected_students \div 25) + 1)

\* the professors that may still be given the exam e: active, not on it, free
\* at its (date, time), and below their daily limit on its date
Eligible(e) ==
    {p \in DOMAIN professors :
        /\ professors[p].is_active
        /\ e \notin ExamsOfProfessor(AllRows, p)
        /\ \A x \in ExamsOfProfessor(AllRows, p) :
              ExamSlot(exams[x]) # ExamSlot(exams[e])
        /\ Cardinality({x \in ExamsOfProfessor(AllRows, p) :
                           exams[x].scheduled_date = exams[e].scheduled_date})
              < professors[p].max_exams_per_day}

\* C11: when the assigner handles a scheduled exam that has no supervisor row
\* and at least R = max(2, expected_students div 25 + 1) professors are
\* eligible, it creates exactly R rows for it, exactly one of them responsible.
C11_RequiredRowsCreated ==
    [][(pc = "assign" /\ pc' = "assign") =>
         LET e == Val(asg).exams[Val(asg).idx]
             R == RequiredSupervisors(exams[e].expected_students)
             created == RowsOfExam(Val(asg').new_sups, e)
         IN (RowsOfExam(supervisors, e) = {} /\ Cardinality(Eligible(e)) >= R)
               => /\ Cardinality(created) = R
                  /\ Cardinality({i \in created :
                        Val(asg').new_sups[i].role = "responsible"}) = 1]_vars

\* C11 witness: an exam of 50 students that had no supervisor has been given
\* three rows by the running request.
C11_Witness ==
    /\ pc = "assign"
    /\ \E i \in 1..(Val(asg).idx - 1) :
         LET e == Val(asg).exams[i]
         IN /\ RequiredSupervisors(exams[e].expected_students) = 3
            /\ RowsOfExam(supervisors, e) = {}
            /\ Cardinality(RowsOfExam(Val(asg).new_sups, e)) = 3

\* C12: no professor has rows for two exams of one date whose time windows
\* [start, start + duration_minutes) intersect.
C12_NoOverlappingSupervision ==
    \A p \in DOMAIN professors : \A a, b \in ExamsOfProfessor(AllRows, p) :
       (a # b /\ exams[a].scheduled_date = exams[b].scheduled_date) =>
          ~times_overlap(exams[a].start_time, exams[a].duration_minutes,
                         exams[b].start_time, exams[b].duration_minutes)

\* C13: on no date does a professor have rows for more exams than the
\* professor's max_exams_per_day.
C13_DailyLimitRespected ==
    \A p \in DOMAIN professors : \A d \in Dates :
       Cardinality({x \in ExamsOfProfessor(AllRows, p) :
                       exams[x].scheduled_date = Some(d)})
          <= professors[p].max_exams_per_day

\* C14: no (exam_id, professor_id) pair is in two supervisor rows, persisted
\* or added by the running request.
C14_UniquePairs ==
    \A i, j \in 1..Len(AllRows) :
       (AllRows[i].exam_id = AllRows[j].exam_id
          /\ AllRows[i].professor_id = AllRows[j].professor_id) => i = j

\* C14 witness: a run that loaded supervisor rows has added rows.
C14_Witness ==
    /\ pc = "assign"
    /\ Val(asg).existing_assignments # <<>>
    /\ Val(asg).new_sups # <<>>

\* C15: a row the run creates is responsible exactly when its exam had no
\* supervisor row before the run and the row is the first the run creates for
\* it; every other row the run creates is supervisor.
C15_RolesOfCreatedRows ==
    pc = "assign" =>
       LET new == Val(asg).new_sups
       IN \A i \in 1..Len(new) :
             LET first == /\ RowsOfExam(supervisors, new[i].exam_id) = {}
                          /\ \A j \in 1..(i - 1) : new[j].exam_id # new[i].exam_id
             IN new[i].role = IF first THEN "responsible" ELSE "supervisor"

\* C15 witness: the run has created a row, of role supervisor, for an exam
\* whose responsible was created by an earlier run.
C15_Witness ==
    /\ pc = "assign"
    /\ \E i \in 1..Len(Val(asg).new_sups) :
          /\ Val(asg).new_sups[i].role = "supervisor"
          /\ \E k \in RowsOfExam(supervisors, Val(asg).new_sups[i].exam_id) :
                supervisors[k].role = "responsible"

----------------------------------------------------------------------------
(* Properties of the conflict report and of the slots of one exam *)

\* the records of one type in a report, as a bag
OfType(conflicts, type) ==
    [r \in {x \in BagToSet(conflicts) : x.type = type} |-> conflicts[r]]

\* the minutes of the day an exam occupies: [start, start + duration_minutes)
Window(ex) ==
    Minutes(Val(ex.start_time))
       .. (Minutes(Val(ex.start_time)) + ex.duration_minutes - 1)

SameDayOverlap(a, b) ==
    /\ exams[a].scheduled_date = exams[b].scheduled_date
    /\ Window(exams[a]) \cap Window(exams[b]) # {}

\* C16: a step that ends with the conflict report as the last operation
\* leaves every exam row and every supervisor row as it was.
C16_AuditorReadOnly ==
    [][(prev_op' = "conflicts") =>
          (exams' = exams /\ supervisors' = supervisors)]_vars

\* C16 witness: a report with records, on scheduled exams with supervisors.
C16_Witness ==
    /\ prev_op = "conflicts" /\ pc = "idle"
    /\ Val(reply).endpoint = "conflicts"
    /\ Val(reply).conflicts # EmptyBag
    /\ supervisors # <<>>
    /\ ExistingExams # {}

\* C17: times_overlap returns true exactly when both starts are present and
\* max(s1, s2) < min(s1 + d1, s2 + d2), that is when each start is before
\* both ends; it gives the same for the two intervals swapped, and false for
\* intervals of which one ends where the other starts.
C17_OverlapPredicate ==
    (Val(reply).returned # None) =>
       LET c == Val(reply)
           present == c.start1 # None /\ c.start2 # None
           s1 == Minutes(Val(c.start1))
           s2 == Minutes(Val(c.start2))
       IN /\ Val(c.returned) =
                (present /\ s1 < s2 + c.dur2 /\ s2 < s1 + c.dur1
                         /\ s1 < s1 + c.dur1 /\ s2 < s2 + c.dur2)
          /\ Val(c.returned) =
                times_overlap(c.start2, c.dur2, c.start1, c.dur1)
          /\ (present /\ (s1 + c.dur1 = s2 \/ s2 + c.dur2 = s1))
                => ~Val(c.returned)

\* C17 witness: the predicate was applied to two intervals that touch.
C17_Witness ==
    /\ Val(reply).returned = Some(FALSE)
    /\ Val(reply).start1 # None /\ Val(reply).start2 # None
    /\ Minutes(Val(Val(reply).start1)) + Val(reply).dur1
          = Minutes(Val(Val(reply).start2))

\* the pairs of scheduled exams that share room and date with overlapping
\* windows, each as the set of the two module ids
RoomConflictPairs ==
    {{exams[p[1]].module_id, exams[p[2]].module_id} :
        p \in {q \in Scheduled(exams) \X Scheduled(exams) :
                  /\ q[1] # q[2]
                  /\ exams[q[1]].room_id = exams[q[2]].room_id
                  /\ SameDayOverlap(q[1], q[2])}}

\* C18: the report holds exactly one Room Overlap record, of severity
\* Critical, for each such pair and no Room Overlap record for another pair.
C18_OneRoomRecordPerPair ==
    (prev_op = "conflicts" /\ pc = "idle") =>
       LET room == OfType(Val(reply).conflicts, "Room Overlap")
           About(pr) == {r \in DOMAIN room : {r.detail[1], r.detail[2]} = pr}
       IN /\ \A pr \in RoomConflictPairs :
                BagCardinality([r \in About(pr) |-> room[r]]) = 1
          /\ \A r \in DOMAIN room :
                /\ r.severity = "Critical"
                /\ {r.detail[1], r.detail[2]} \in RoomConflictPairs

\* C18 witness: a report with two Room Overlap records while two other
\* scheduled exams share room and date without overlapping.
C18_Witness ==
    /\ prev_op = "conflicts" /\ pc = "idle"
    /\ BagCardinality(OfType(Val(reply).conflicts, "Room Overlap")) = 2
    /\ \E a, b \in Scheduled(exams) :
          /\ a # b
          /\ exams[a].room_id = exams[b].room_id
          /\ exams[a].scheduled_date = exams[b].scheduled_date
          /\ ~SameDayOverlap(a, b)

\* the students enrolled in two modules whose scheduled exams overlap
StudentsDoubleBooked ==
    {s \in {x[1] : x \in enrollments} :
        \E a, b \in Scheduled(exams) :
           /\ exams[a].module_id # exams[b].module_id
           /\ s \in module_students(exams[a].module_id)
           /\ s \in module_students(exams[b].module_id)
           /\ SameDayOverlap(a, b)}

C20_AvailableSlotsFeasible ==
    (prev_op = "available_slots" /\ pc = "idle") =>
       LET res == Val(reply).result
           e == Val(reply).exam_id
           Key(x) == <<x.slot_date, Minutes(x.slot_time), x.room_capacity>>
           Before(k, l) ==
              \/ k[1] < l[1]
              \/ k[1] = l[1] /\ k[2] < l[2]
              \/ k[1] = l[1] /\ k[2] = l[2] /\ k[3] <= l[3]
       IN /\ res.error = None
          /\ Len(res.slots) <= Max2(Val(reply).limit, 0)
          /\ \A i, j \in 1..Len(res.slots) :
                i < j => Before(Key(res.slots[i]), Key(res.slots[j]))
          /\ \A i \in 1..Len(res.slots) :
                LET x == res.slots[i]
                IN /\ rooms[x.room_id].exam_capacity >= StudentCount(exams[e])
                   /\ exams[e].requires_computer => rooms[x.room_id].has_computers
                   /\ exams[e].requires_lab => rooms[x.room_id].room_type = "lab"
                   /\ \A o \in Scheduled(exams) \ {e} :
                         /\ ShareStudent(exams, e, o)
                               => exams[o].scheduled_date # Some(x.slot_date)
                         /\ SlotOf(exams[o])
                               # <<Some(x.room_id), Some(x.slot_date),
                                   Some(x.slot_time)>>

----------------------------------------------------------------------------
(* Properties of the slot sequence *)

FourDailyTimes == {Time(8, 30), Time(11, 0), Time(13, 30), Time(16, 0)}

\* C22: the generated sequence is strictly increasing in (date, start time),
\* holds exactly the four daily start times of every date of
\* [start_date, end_date] that is not a Friday, and is empty when end_date is
\* before start_date.
C22_SlotSequence ==
    (prev_op = "all_slots") =>
       LET slots == Val(reply).slots
       IN /\ \A i, j \in 1..Len(slots) :
                i < j => \/ slots[i][1] < slots[j][1]
                         \/ /\ slots[i][1] = slots[j][1]
                            /\ Minutes(slots[i][2]) < Minutes(slots[j][2])
          /\ Range(slots) =
                {<<d, t>> : d \in {x \in session.start_date..session.end_date :
                                      x % 7 # 4},
                            t \in FourDailyTimes}
          /\ session.end_date < session.start_date => slots = <<>>

\* C22 witness: a session from a Wednesday to the next Monday: a Friday is
\* left out and the twenty slots of the five other days are generated.
C22_Witness ==
    /\ prev_op = "all_slots"
    /\ session = [start_date |-> 2, end_date |-> 7]
    /\ Len(Val(reply).slots) = 20

----------------------------------------------------------------------------
(* Properties of the room filter *)

EnrolledIn(e) == {x[1] : x \in {y \in enrollments : y[2] = exams[e].module_id}}

\* the exam the run has just handled is placed exactly when a room holds
\* count students, and then in a room that does
PlacedIffRoomFor(e, count) ==
    /\ (ws[e].status = "scheduled") <=>
          (\E r \in DOMAIN rooms : rooms[r].exam_capacity >= count)
    /\ (ws[e].status = "scheduled") =>
          rooms[Val(ws[e].room_id)].exam_capacity >= count

\* C25 as stated: the count the rooms are filtered with is the number of
\* enrolled students of the module and, when there is none, the stored
\* expected_students, whatever its value.
C25_StoredCountFallback ==
    (pc = "loop" /\ idx = 2 /\ exams[pending_exams[1]].status = "pending") =>
       LET e == pending_exams[1]
           n == Cardinality(EnrolledIn(e))
       IN PlacedIffRoomFor(e, IF n = 0 THEN exams[e].expected_students ELSE n)

\* C25 amended: as stated, except that a stored expected_students of 0 counts
\* as 50 when the module has no enrolled student.
C25_StoredCountOrFifty ==
    (pc = "loop" /\ idx = 2 /\ exams[pending_exams[1]].status = "pending") =>
       LET e == pending_exams[1]
           n == Cardinality(EnrolledIn(e))
           stored == exams[e].expected_students
       IN PlacedIffRoomFor(e, IF n # 0 THEN n
                              ELSE IF stored = 0 THEN 50 ELSE stored)

\* C25 witness: the module has no enrolled student, 60 is stored, and the
\* exam went to the room of 60 seats past the rooms of 1 and 50.
C25_Witness ==
    /\ pc = "loop" /\ idx = 2
    /\ EnrolledIn(pending_exams[1]) = {}
    /\ exams[pending_exams[1]].expected_students = 60
    /\ DOMAIN rooms = {1, 2, 5}
    /\ ws[pending_exams[1]].room_id = Some(2)

----------------------------------------------------------------------------
(* Properties of the greedy loop *)

\* the (slot position, room) pairs open to the exam e under the indices of
\* the current state: no student of the exam is in the day's set, the room is
\* in the exam's candidate pool and not in the slot's set
OpenPairs(e) ==
    LET pool == Range(CandidateRooms(ws[e], rooms_by_capacity))
        studs == {x[1] : x \in {y \in enrollments : y[2] = ws[e].module_id}}
    IN {g \in (1..Len(all_slots)) \X pool :
          /\ studs \cap students_per_day[all_slots[g[1]][1]] = {}
          /\ g[2] \notin rooms_busy_at_slot[all_slots[g[1]]]}

\* C24: an iteration of the loop gives the exam the earliest slot that has an
\* open pair and, in that slot, an open room of smallest exam_capacity; it
\* counts the exam failed only when the exam has no open pair at all.
C24_GreedyFirstFit ==
    [][(pc = "loop" /\ idx' = idx + 1) =>
          LET e == pending_exams[idx]
              open == OpenPairs(e)
          IN IF ws'[e].status = "scheduled"
               THEN /\ scheduled_count' = scheduled_count + 1
                    /\ failed_count' = failed_count
                    /\ \E g \in open :
                          /\ ws'[e].scheduled_date = Some(all_slots[g[1]][1])
                          /\ ws'[e].start_time = Some(all_slots[g[1]][2])
                          /\ ws'[e].room_id = Some(g[2])
                          /\ \A h \in open :
                                /\ h[1] >= g[1]
                                /\ h[1] = g[1] =>
                                     rooms[h[2]].exam_capacity
                                        >= rooms[g[2]].exam_capacity
               ELSE /\ open = {}
                    /\ failed_count' = failed_count + 1
                    /\ scheduled_count' = scheduled_count]_vars

\* C24 witness: the run has placed an exam later than the first slot and has
\* counted another exam failed.
C24_Witness ==
    /\ pc = "loop"
    /\ failed_count > 0
    /\ \E i \in 1..(idx - 1) :
          /\ exams[pending_exams[i]].status = "pending"
          /\ ws[pending_exams[i]].status = "scheduled"
          /\ <<Val(ws[pending_exams[i]].scheduled_date),
               Val(ws[pending_exams[i]].start_time)>> # all_slots[1]

\* C27: during a run the loaded list holds every pending exam of the session
\* once, in descending expected_students; the exams before the loop position
\* have each been placed or counted failed, and those from the loop position
\* on are untouched, so of two pending exams with different expected_students
\* the one with more is dealt with before the other is looked at.
C27_OncePerRunLargestFirst ==
    pc = "loop" =>
       LET n == Len(pending_exams)
       IN /\ Range(pending_exams)
                = {e \in DOMAIN exams : exams[e].status = "pending"}
          /\ \A i, j \in 1..n : i # j => pending_exams[i] # pending_exams[j]
          /\ idx \in 1..(n + 1)
          /\ scheduled_count + failed_count = idx - 1
          /\ \A i \in idx..n : ws[pending_exams[i]] = exams[pending_exams[i]]
          /\ \A i, j \in 1..n :
                exams[pending_exams[i]].expected_students
                   > exams[pending_exams[j]].expected_students
                => /\ i < j
                   /\ j < idx => i < idx

\* C27 witness: of two pending exams with different expected_students the
\* larger has been placed and the smaller has not been looked at yet.
C27_Witness ==
    /\ pc = "loop" /\ idx = 2 /\ Len(pending_exams) = 2
    /\ exams[pending_exams[1]].expected_students
          > exams[pending_exams[2]].expected_students
    /\ ws[pending_exams[1]].status = "scheduled"
    /\ ws[pending_exams[2]].status = "pending"

----------------------------------------------------------------------------
(* Properties of the ranking of the candidates *)

\* the supervisions of a professor so far: persisted and added by the run
RunningLoad(p) == Cardinality(RowsOfProfessor(AllRows, p))

PlainScore(p, e) ==
    (IF professors[p].department_id = modules[exams[e].module_id].department_id
       THEN 20 ELSE 0) - 5 * RunningLoad(p)

\* C26: in an iteration of the assigner, a candidate whose score without the
\* random part (20 for the exam's department, minus 5 per supervision so far,
\* those of this run included) is strictly higher than another's is picked
\* whenever the other is, and before it.
C26_ScoreOrderWins ==
    [][(pc = "assign" /\ pc' = "assign") =>
          LET st == Val(asg)
              e == st.exams[st.idx]
              cands == Candidates(exams[e], st.prof_busy,
                          SelectSeq(st.existing_assignments,
                                    LAMBDA s : s.exam_id = e))
              new == Val(asg').new_sups
              Pos(p) == {i \in (Len(st.new_sups) + 1)..Len(new) :
                            new[i].professor_id = p}
          IN \A a, b \in cands :
                (PlainScore(a, e) > PlainScore(b, e) /\ Pos(b) # {})
                   => /\ Pos(a) # {}
                      /\ \A i \in Pos(a) : \A j \in Pos(b) : i < j]_vars

\* C26 witness: two professors of the exam's department were picked one after
\* the other for it, the second one already given another exam by this run,
\* the first one without any supervision before.
C26_Witness ==
    /\ pc = "assign"
    /\ LET new == Val(asg).new_sups
           OfDept(i) == professors[new[i].professor_id].department_id
                           = modules[exams[new[i].exam_id].module_id].department_id
       IN \E i \in 1..(Len(new) - 1) :
             /\ new[i].exam_id = new[i + 1].exam_id
             /\ OfDept(i) /\ OfDept(i + 1)
             /\ \E j \in 1..(i - 1) : new[j].professor_id = new[i + 1].professor_id
             /\ \A j \in 1..(i - 1) : new[j].professor_id # new[i].professor_id
             /\ RowsOfProfessor(supervisors, new[i].professor_id) = {}

\* C28: an assigner run that directly follows an assigner run adds no row,
\* whatever exams the first run left with fewer rows than they need.
C28_SecondAssignAddsNothing ==
    (pc = "assign" /\ prev_op = "assign") =>
       /\ Val(asg).new_sups = <<>>
       /\ Val(asg).new_assignments = 0
       /\ \A i \in 1..Len(supervisors) :
             professors[supervisors[i].professor_id].is_active

\* C28 witness: the second run has passed an exam that has fewer rows than it
\* needs.
C28_Witness ==
    /\ pc = "assign" /\ prev_op = "assign"
    /\ \E i \in 1..(Val(asg).idx - 1) :
          LET e == Val(asg).exams[i]
          IN /\ RowsOfExam(supervisors, e) # {}
             /\ Cardinality(RowsOfExam(supervisors, e))
                   < RequiredSupervisors(exams[e].expected_students)

----------------------------------------------------------------------------
(* Properties of schedule_single_exam *)

\* C29: schedule_single_exam on a pending exam ends in one of two ways: it
\* returns success = false and leaves the exam as it was, or it returns
\* success = true with the exam scheduled at a (room, date, time) that no
\* other scheduled exam of the session holds.
C29_SingleExamScheduledOrRefused ==
    [][(prev_op' = "schedule_exam"
          /\ exams[Val(reply').exam_id].status = "pending") =>
          LET e == Val(reply').exam_id
          IN /\ Val(reply').error = None
             /\ IF Val(reply').success
                  THEN /\ exams'[e].status = "scheduled"
                       /\ exams'[e].scheduled_date # None
                       /\ exams'[e].start_time # None
                       /\ exams'[e].room_id # None
                       /\ \A o \in Scheduled(exams') \ {e} :
                             SlotOf(exams'[o]) # SlotOf(exams'[e])
                  ELSE exams'[e] = exams[e]]_vars

----------------------------------------------------------------------------
(* Properties of clear_session_schedule *)

\* a step of clear_session_schedule leaves no exam scheduled, turns every
\* scheduled exam into a pending one without date, time and room, changes no
\* other field and no other exam, and leaves no supervisor row of an exam of
\* the session
ClearResetsSession ==
    (prev_op # "clear" /\ prev_op' = "clear") =>
       /\ Scheduled(exams') = {}
       /\ DOMAIN exams' = DOMAIN exams
       /\ \A e \in DOMAIN exams :
             IF exams[e].status = "scheduled"
               THEN exams'[e] = [exams[e] EXCEPT !.status = "pending",
                                                 !.scheduled_date = None,
                                                 !.start_time = None,
                                                 !.room_id = None]
               ELSE exams'[e] = exams[e]
       /\ \A i \in 1..Len(supervisors') :
             supervisors'[i].exam_id \notin DOMAIN exams

\* the run that follows a clear ends with the assignments of every run on the
\* session with all its exams pending
RerunAfterClearIsTheSame ==
    (prev_op = "clear" /\ pc = "loop" /\ idx > Len(pending_exams)) =>
       \A po \in PendingOrders : \A ro \in RoomOrders : RunAll(po, ro) = ws

\* C30: clear_session_schedule resets the session (no exam scheduled, the
\* scheduled ones pending with empty date, time and room, no supervisor row
\* left), and a scheduleSession that follows yields the assignments of the
\* never-scheduled session.
C30_ClearThenReschedule ==
    [][ClearResetsSession /\ RerunAfterClearIsTheSame]_vars

----------------------------------------------------------------------------
(* Properties of the requests for a missing session and for an empty run *)

\* C23: a scheduleSession or assignSupervisors request for a session id that
\* no session has ends with NotFound, starts no run, changes no exam and adds
\* no supervisor row; a run of scheduleSession that found no pending exam
\* ends without error with total = scheduled = failed = 0.
C23_NotFoundAndEmptyRun ==
    [][/\ (prev_op' \in {"schedule_unknown_session", "assign_unknown_session"}
             /\ <<prev_op', reply'>> # <<prev_op, reply>>) =>
             /\ Val(reply').session_id \notin SessionIds
             /\ Val(reply').error = Some("NotFound")
             /\ exams' = exams
             /\ supervisors' = supervisors
             /\ pc' = "idle" /\ asg' = None
             /\ UNCHANGED locals
       /\ (pc = "loop" /\ pc' = "idle" /\ prev_op' = "schedule"
             /\ pending_exams = <<>>) =>
             /\ result' = Some([total_exams |-> 0, scheduled_count |-> 0,
                                failed_count |-> 0])
             /\ exams' = exams]_vars

\* C23 witness: assignSupervisors for a missing session was refused while the
\* session of the model has scheduled exams with supervisors, after a run of
\* scheduleSession that found nothing pending.
C23_Witness ==
    /\ prev_op = "assign_unknown_session"
    /\ Val(reply).error = Some("NotFound")
    /\ Scheduled(exams) # {}
    /\ supervisors # <<>>
    /\ result = Some([total_exams |-> 0, scheduled_count |-> 0,
                      failed_count |-> 0])

----------------------------------------------------------------------------
(* Properties of an aborted run *)

Aborted == {"schedule_aborted", "assign_aborted"}

\* C21: a run that is aborted persists nothing of what it did, so the exam
\* and supervisor rows are those of before the run; every persisted scheduled
\* exam has its date, time and room; and a run after an abort changes no exam
\* that is persisted as scheduled.
C21_AbortKeepsPersistedState ==
    [][/\ (pc # "idle" /\ prev_op' \in Aborted /\ pc' = "idle") =>
             (exams' = exams /\ supervisors' = supervisors)
       /\ \A e \in Scheduled(exams) :
             /\ exams[e].scheduled_date # None
             /\ exams[e].start_time # None
             /\ exams[e].room_id # None
       /\ (prev_op \in Aborted /\ pc = "loop") =>
             /\ \A e \in Scheduled(exams) : ws[e] = exams[e]
             /\ \A e \in Scheduled(exams) : exams'[e] = exams[e]
       /\ (prev_op \in Aborted /\ pc = "assign") => exams' = exams]_vars

\* C21 witness: an assigner run was aborted between two exams, having added
\* rows in its objects that are not persisted, and the run after it is adding
\* rows for the scheduled exams.
C21_Witness ==
    /\ prev_op = "assign_aborted"
    /\ Val(reply).handled >= 1
    /\ Val(reply).handled < Val(reply).loaded
    /\ pc = "assign"
    /\ supervisors = <<>>
    /\ Val(asg).new_sups # <<>>
    /\ Cardinality(Scheduled(exams)) >= 2

====
